---- MODULE Spec2Model ----
(***************************************************************************)
(* Model of aws_cli_tool.py: the command dispatch of the provisioning CLI  *)
(* (main, handle_ec2_commands, handle_s3_commands,                          *)
(* handle_route53_commands) running against the remote provider's state.   *)
(* Each invocation of the tool is one process that parses one command      *)
(* line and runs one handler to completion; every remote call is one       *)
(* atomic round trip that either returns or raises.                        *)
(***************************************************************************)
EXTENDS Integers, Sequences, FiniteSets, TLC

(* ---------------------------------------------------------------------- *)
(* Bounds of the model                                                      *)
(* ---------------------------------------------------------------------- *)

\* longest list of instances the account holds before the first invocation
InitInstances == 2

\* number of times the tool is invoked
MaxRuns == 2

\* the processes the tool can run in at the same time
Invocations == {"inv1", "inv2"}

\* the process of an operator who invokes the tool one command after another
Operator == "inv1"

Null == "null"

(* ---------------------------------------------------------------------- *)
(* Command line surface (main, lines 11-51)                                 *)
(* ---------------------------------------------------------------------- *)

InstanceTypes == {"t3.nano", "t4g.nano"}

AmiChoices == {"ubuntu", "amazon-linux"}

ManageActions == {"start", "stop"}

\* values given to --instance-id: instance i is the i-th of the account
InstanceIds == {1, 2}

BucketNames == {"bkt-a", "bkt-b"}

Files == {"data.txt", "missing.txt"}

\* files of the local file system that open(path, 'rb') can read
ReadableFiles == {"data.txt"}

ZoneNames == {"example.com"}

\* answers typed at the confirmation prompt, as sequences of characters
ConfirmInputs ==
    { <<"y", "e", "s">>, <<"Y", "E", "S">>, <<"Y", "e", "s">>,
      <<"n", "o">>, <<"N", "O">>, <<"y">>, <<>>, <<"y", "e", "s", " ">> }

\* the command lines the parser accepts; sub is the sub-command word and
\* opt_action the value of the --action option of 'ec2 manage'
CmdLines ==
    { [resource |-> "ec2", sub |-> "create", instance_type |-> t, ami |-> a]
        : t \in InstanceTypes, a \in AmiChoices }
    \cup
    { [resource |-> "ec2", sub |-> "manage", instance_id |-> i, opt_action |-> x]
        : i \in InstanceIds, x \in ManageActions }
    \cup
    { [resource |-> "ec2", sub |-> "list"] }
    \cup
    { [resource |-> "s3", sub |-> "create", bucket_name |-> b, public |-> pub]
        : b \in BucketNames, pub \in BOOLEAN }
    \cup
    { [resource |-> "s3", sub |-> "upload", bucket_name |-> b, file |-> f]
        : b \in BucketNames, f \in Files }
    \cup
    { [resource |-> "s3", sub |-> "list"] }
    \cup
    { [resource |-> "route53", sub |-> "create", zone_name |-> z] : z \in ZoneNames }
    \cup
    { [resource |-> "route53", sub |-> "manage", zone_id |-> "Z1", record |-> "rec"] }
    \cup
    { [resource |-> Null] }

\* argparse: the sub-parsers store the sub-command word under dest 'action';
\* the --action option of 'ec2 manage' has the same dest and is stored after
\* it, so it replaces the sub-command word in the namespace
parse_args(c) ==
    IF c.resource = Null THEN [resource_type |-> Null, action |-> Null]
    ELSE IF c.resource = "ec2" /\ c.sub = "create" THEN
        [resource_type |-> "ec2", action |-> c.sub,
         instance_type |-> c.instance_type, ami |-> c.ami]
    ELSE IF c.resource = "ec2" /\ c.sub = "manage" THEN
        [resource_type |-> "ec2", action |-> c.opt_action,
         instance_id |-> c.instance_id]
    ELSE IF c.resource = "s3" /\ c.sub = "create" THEN
        [resource_type |-> "s3", action |-> c.sub,
         bucket_name |-> c.bucket_name, public |-> c.public]
    ELSE IF c.resource = "s3" /\ c.sub = "upload" THEN
        [resource_type |-> "s3", action |-> c.sub,
         bucket_name |-> c.bucket_name, file |-> c.file]
    ELSE IF c.resource = "route53" /\ c.sub = "create" THEN
        [resource_type |-> "route53", action |-> c.sub, zone_name |-> c.zone_name]
    ELSE IF c.resource = "route53" /\ c.sub = "manage" THEN
        [resource_type |-> "route53", action |-> c.sub,
         zone_id |-> c.zone_id, record |-> c.record]
    ELSE [resource_type |-> c.resource, action |-> c.sub]

\* main, lines 55-62, with the if/elif chain of the selected handler
\* (lines 65, 90, 92, 95, 99; 106, 121, 131; 137, 141): the branch of the
\* code that namespace a runs
dispatch(a) ==
    IF a.resource_type = "ec2" THEN
        IF a.action = "create" THEN "ec2.create"
        ELSE IF a.action = "manage" THEN
            IF a.action = "start" THEN "ec2.start"
            ELSE IF a.action = "stop" THEN "ec2.stop"
            ELSE "ec2.pass"
        ELSE IF a.action = "list" THEN "ec2.list"
        ELSE "ec2.pass"
    ELSE IF a.resource_type = "s3" THEN
        IF a.action = "create" THEN "s3.create"
        ELSE IF a.action = "upload" THEN "s3.upload"
        ELSE IF a.action = "list" THEN "s3.list"
        ELSE "s3.pass"
    ELSE IF a.resource_type = "route53" THEN
        IF a.action = "create" THEN "route53.create"
        ELSE IF a.action = "manage" THEN "route53.manage"
        ELSE "route53.pass"
    ELSE "print_help"

(* ---------------------------------------------------------------------- *)
(* Pure helpers of the handlers                                             *)
(* ---------------------------------------------------------------------- *)

UpperChars == <<"A", "B", "C", "D", "E", "F", "G", "H", "I", "J", "K", "L", "M",
                "N", "O", "P", "Q", "R", "S", "T", "U", "V", "W", "X", "Y", "Z">>

LowerChars == <<"a", "b", "c", "d", "e", "f", "g", "h", "i", "j", "k", "l", "m",
                "n", "o", "p", "q", "r", "s", "t", "u", "v", "w", "x", "y", "z">>

\* str.lower(): every upper-case letter replaced by its lower-case letter
lower(s) ==
    [i \in DOMAIN s |->
        IF \E k \in DOMAIN UpperChars : UpperChars[k] = s[i]
        THEN LowerChars[CHOOSE k \in DOMAIN UpperChars : UpperChars[k] = s[i]]
        ELSE s[i]]

\* a prompt that compares the answer as typed, without lower()
confirmed_as_typed(inp) == inp = <<"y", "e", "s">>

\* a prompt that takes any answer starting with y for approval
confirmed_by_prefix(inp) == Len(inp) > 0 /\ lower(inp)[1] = "y"

\* line 109: confirm.lower() != 'yes' is false
confirmed(inp) == lower(inp) = <<"y", "e", "s">>

\* a mapping that gives every AMI choice the Ubuntu image
ami_id_ubuntu_only(ami) == "ami-12345678"

\* lines 73-76: the image id of an AMI choice; the if/elif has no else, so any
\* other value leaves ami_id unbound
ami_id(ami) ==
    IF ami = "ubuntu" THEN "ami-12345678"
    ELSE IF ami = "amazon-linux" THEN "ami-87654321"
    ELSE "UnboundLocalError"

\* the tag the tool attaches and filters on (lines 66, 85, 100)
OwnershipTag == [Key |-> "CreatedByCLI", Value |-> "true"]

\* the cap of line 69
RunningCap == 2

(* ---------------------------------------------------------------------- *)
(* State                                                                    *)
(* ---------------------------------------------------------------------- *)

VARIABLES
    instances,        \* provider: the account's instances, in id order
    buckets,          \* provider: names of the account's buckets
    tagged_buckets,   \* provider: buckets that bear the ownership tag
    public_buckets,   \* provider: buckets whose ACL is public-read
    objects,          \* provider: <<bucket, key>> of the uploaded objects
    zones,            \* provider: the hosted zones with their caller references, in id order
    pc,               \* invocation: position in the code
    argv,             \* invocation: its command line
    calls,            \* invocation: the remote calls issued, in order
    out,              \* invocation: the lines printed, in order
    stdin,            \* invocation: the answers read at the prompt
    running_instances, \* invocation: the local list of line 67
    runs              \* number of invocations started so far

provider == <<instances, buckets, tagged_buckets, public_buckets, objects, zones>>

locals == <<pc, argv, calls, out, stdin, running_instances>>

vars == <<instances, buckets, tagged_buckets, public_buckets, objects, zones,
          pc, argv, calls, out, stdin, running_instances, runs>>

\* the namespace of invocation p (line 53)
args(p) == parse_args(argv[p])

\* the states of the instances an account holds at rest
InstanceStates == {"running", "stopped"}

\* the instance lists of length n
InstanceLists(n) == [1..n -> [state : InstanceStates, tagged : BOOLEAN]]

\* the provider's describe_instances: the instances that bear every tag of
\* the filter, in id order, each with its id and state
describe_instances(insts, filters) ==
    LET shown == SelectSeq([i \in 1..Len(insts) |-> i],
                           LAMBDA i : OwnershipTag \in filters => insts[i].tagged)
    IN  [k \in 1..Len(shown) |-> [InstanceId |-> shown[k], State |-> insts[shown[k]].state]]

\* a read that passes no filter
NoTagFilter == {}

\* the filter of lines 66 and 100
TagFilter == {OwnershipTag}

\* line 67: the instances of the response whose state is running
running_of(response) == SelectSeq(response, LAMBDA i : i.State = "running")

\* the cap check with > in place of >=
cap_reached_above(running) == Len(running) > RunningCap

\* line 69: the cap is reached
cap_reached(running) == Len(running) >= RunningCap

\* a create call that attaches no tag
NoTagSpecifications == {}

\* lines 83-86: the tags of the created instance
TagSpecifications == {OwnershipTag}

\* the response order of list_buckets (lines 122, 132)
BucketOrder == <<"bkt-a", "bkt-b">>

list_buckets(bs) == SelectSeq(BucketOrder, LAMBDA b : b \in bs)

\* the exceptions that end an invocation with a traceback
Exceptions == {"ClientError", "FileNotFoundError"}

Init ==
    /\ \E n \in 0..InitInstances : instances \in InstanceLists(n)
    /\ buckets \in SUBSET BucketNames
    /\ tagged_buckets \in SUBSET buckets
    /\ public_buckets = {}
    /\ objects = {}
    /\ zones = <<>>
    /\ pc = [p \in Invocations |-> "idle"]
    /\ argv = [p \in Invocations |-> [resource |-> Null]]
    /\ calls = [p \in Invocations |-> <<>>]
    /\ out = [p \in Invocations |-> <<>>]
    /\ stdin = [p \in Invocations |-> <<>>]
    /\ running_instances = [p \in Invocations |-> <<>>]
    /\ runs = 0

\* the invocation issues remote call c
Issue(p, c) == calls' = [calls EXCEPT ![p] = Append(@, c)]

\* the invocation prints line l
Say(p, l) == out' = [out EXCEPT ![p] = Append(@, l)]

Goto(p, label) == pc' = [pc EXCEPT ![p] = label]

\* a handler that goes on as if the failed call had returned nothing
RaiseSwallowed(p) == pc' = [pc EXCEPT ![p] = "done"]

\* a remote call raises; no handler has a try/except, so the exception leaves
\* main and ends the process
Raise(p) == pc' = [pc EXCEPT ![p] = "ClientError"]

(* ---------------------------------------------------------------------- *)
(* main                                                                     *)
(* ---------------------------------------------------------------------- *)

\* lines 53-62: a process starts, parses a command line of cmds and enters
\* the handler
Start(p, cmds) ==
    /\ pc[p] = "idle"
    /\ runs < MaxRuns
    /\ runs' = runs + 1
    /\ \E c \in cmds :
        /\ argv' = [argv EXCEPT ![p] = c]
        /\ Goto(p, dispatch(parse_args(c)))
    /\ UNCHANGED <<provider, calls, out, stdin, running_instances>>

main(p) == Start(p, CmdLines)

\* a process that leaves the list it has read to the next invocation
exit_keeping_read(p) ==
    /\ pc[p] \in {"done"} \cup Exceptions
    /\ pc' = [pc EXCEPT ![p] = "idle"]
    /\ argv' = [argv EXCEPT ![p] = [resource |-> Null]]
    /\ calls' = [calls EXCEPT ![p] = <<>>]
    /\ out' = [out EXCEPT ![p] = <<>>]
    /\ stdin' = [stdin EXCEPT ![p] = <<>>]
    /\ UNCHANGED <<provider, runs, running_instances>>

\* line 146: main returns or an exception leaves it, and the process ends;
\* nothing of it is kept
exit(p) ==
    /\ pc[p] \in {"done"} \cup Exceptions
    /\ pc' = [pc EXCEPT ![p] = "idle"]
    /\ argv' = [argv EXCEPT ![p] = [resource |-> Null]]
    /\ calls' = [calls EXCEPT ![p] = <<>>]
    /\ out' = [out EXCEPT ![p] = <<>>]
    /\ stdin' = [stdin EXCEPT ![p] = <<>>]
    /\ running_instances' = [running_instances EXCEPT ![p] = <<>>]
    /\ UNCHANGED <<provider, runs>>

\* a stub of 'route53 manage' that raises instead of passing
NoBranchNotImplemented(p) ==
    /\ pc[p] \in {"print_help", "s3.pass", "route53.pass", "route53.manage"}
    /\ IF pc[p] = "print_help" THEN Say(p, [line |-> "usage"]) ELSE UNCHANGED out
    /\ Goto(p, IF pc[p] = "route53.manage" THEN "NotImplementedError" ELSE "done")
    /\ UNCHANGED <<provider, runs, argv, calls, stdin, running_instances>>

\* line 62 (usage), line 143 ('route53 manage' is a stub), and the end of a
\* handler none of whose branches matches
NoBranch(p) ==
    /\ pc[p] \in {"print_help", "s3.pass", "route53.pass", "route53.manage"}
    /\ IF pc[p] = "print_help" THEN Say(p, [line |-> "usage"]) ELSE UNCHANGED out
    /\ Goto(p, "done")
    /\ UNCHANGED <<provider, runs, argv, calls, stdin, running_instances>>

(* ---------------------------------------------------------------------- *)
(* handle_ec2_commands                                                      *)
(* ---------------------------------------------------------------------- *)

\* lines 66-71: the tag-filtered read and the cap check
EC2CapCheck(p) ==
    /\ pc[p] = "ec2.create"
    /\ \E ok \in BOOLEAN :
        LET response == IF ok THEN describe_instances(instances, TagFilter) ELSE <<>>
        IN  /\ Issue(p, [op |-> "describe_instances", Filters |-> TagFilter,
                         ok |-> ok, response |-> response])
            /\ IF ~ok
               THEN /\ Raise(p)
                    /\ UNCHANGED <<out, running_instances>>
               ELSE /\ running_instances' =
                           [running_instances EXCEPT ![p] = running_of(response)]
                    /\ IF cap_reached(running_of(response))
                       THEN /\ Say(p, [line |-> "Error: Cannot create more than 2 running instances."])
                            /\ Goto(p, "done")
                       ELSE /\ Goto(p, "run_instances")
                            /\ UNCHANGED out
    /\ UNCHANGED <<provider, runs, argv, stdin>>

\* a create step that reads the running count again and gives up at the cap
EC2RunInstancesRechecked(p) ==
    /\ pc[p] = "run_instances"
    /\ IF cap_reached(running_of(describe_instances(instances, TagFilter)))
       THEN /\ Say(p, [line |-> "Error: Cannot create more than 2 running instances."])
            /\ Goto(p, "done")
            /\ UNCHANGED <<instances, calls>>
       ELSE \E ok \in BOOLEAN :
            /\ Issue(p, [op |-> "run_instances", ImageId |-> ami_id(args(p).ami),
                         InstanceType |-> args(p).instance_type,
                         MinCount |-> 1, MaxCount |-> 1, Tags |-> TagSpecifications,
                         ok |-> ok])
            /\ IF ok
               THEN /\ instances' = Append(instances,
                           [state |-> "pending", tagged |-> OwnershipTag \in TagSpecifications])
                    /\ Say(p, [line |-> "Created instance", InstanceId |-> Len(instances) + 1])
                    /\ Goto(p, "done")
               ELSE /\ Raise(p)
                    /\ UNCHANGED <<instances, out>>
    /\ UNCHANGED <<buckets, tagged_buckets, public_buckets, objects, zones,
                   runs, argv, stdin, running_instances>>

\* lines 73-88: the image id is resolved and one tagged instance created
EC2RunInstances(p) ==
    /\ pc[p] = "run_instances"
    /\ \E ok \in BOOLEAN :
        /\ Issue(p, [op |-> "run_instances", ImageId |-> ami_id(args(p).ami),
                     InstanceType |-> args(p).instance_type,
                     MinCount |-> 1, MaxCount |-> 1, Tags |-> TagSpecifications,
                     ok |-> ok])
        /\ IF ok
           THEN /\ instances' = Append(instances,
                       [state |-> "pending", tagged |-> OwnershipTag \in TagSpecifications])
                /\ Say(p, [line |-> "Created instance", InstanceId |-> Len(instances) + 1])
                /\ Goto(p, "done")
           ELSE /\ Raise(p)
                /\ UNCHANGED <<instances, out>>
    /\ UNCHANGED <<buckets, tagged_buckets, public_buckets, objects, zones,
                   runs, argv, stdin, running_instances>>

\* lines 90-97: the body under 'manage'; the tests of lines 92 and 95 read the
\* same args.action as the test of line 90
EC2Manage(p) ==
    /\ pc[p] \in {"ec2.start", "ec2.stop", "ec2.pass"}
    /\ IF pc[p] = "ec2.pass"
       THEN /\ Goto(p, "done")
            /\ UNCHANGED <<instances, calls, out>>
       ELSE LET id == args(p).instance_id
                start == pc[p] = "ec2.start"
            IN  \E ok \in IF id \in 1..Len(instances) THEN BOOLEAN ELSE {FALSE} :
                /\ Issue(p, [op |-> IF start THEN "start_instances" ELSE "stop_instances",
                             InstanceIds |-> <<id>>, ok |-> ok])
                /\ IF ok
                   THEN /\ instances' = [instances EXCEPT
                               ![id].state = IF start THEN "running" ELSE "stopped"]
                        /\ Say(p, [line |-> IF start THEN "Started instance"
                                                     ELSE "Stopped instance",
                                   instance_id |-> id])
                        /\ Goto(p, "done")
                   ELSE /\ Raise(p)
                        /\ UNCHANGED <<instances, out>>
    /\ UNCHANGED <<buckets, tagged_buckets, public_buckets, objects, zones,
                   runs, argv, stdin, running_instances>>

\* lines 100-103: one line per instance of the tag-filtered response
EC2List(p) ==
    /\ pc[p] = "ec2.list"
    /\ \E ok \in BOOLEAN :
        LET response == IF ok THEN describe_instances(instances, TagFilter) ELSE <<>>
        IN  /\ Issue(p, [op |-> "describe_instances", Filters |-> TagFilter,
                         ok |-> ok, response |-> response])
            /\ IF ok
               THEN /\ out' = [out EXCEPT ![p] = @ \o
                           [k \in 1..Len(response) |->
                               [line |-> "Instance ID",
                                InstanceId |-> response[k].InstanceId,
                                State |-> response[k].State]]]
                    /\ Goto(p, "done")
               ELSE /\ Raise(p)
                    /\ UNCHANGED out
    /\ UNCHANGED <<provider, runs, argv, stdin, running_instances>>

\* the provider brings a created instance up
BecomeRunning(i) ==
    /\ i \in 1..Len(instances)
    /\ instances[i].state = "pending"
    /\ instances' = [instances EXCEPT ![i].state = "running"]
    /\ UNCHANGED <<buckets, tagged_buckets, public_buckets, objects, zones, locals, runs>>

(* ---------------------------------------------------------------------- *)
(* handle_s3_commands                                                       *)
(* ---------------------------------------------------------------------- *)

\* a handler that takes every bucket for a public one
public_requested_always(a) == TRUE

\* lines 107 and 116: args.public, set by the --public flag
public_requested(a) == a.public

\* lines 107-111: the confirmation prompt of a public bucket
S3Confirm(p) ==
    /\ pc[p] = "s3.create"
    /\ public_requested(args(p))
    /\ \E inp \in ConfirmInputs :
        /\ stdin' = [stdin EXCEPT ![p] = Append(@, inp)]
        /\ IF confirmed(inp)
           THEN /\ Goto(p, "create_bucket")
                /\ UNCHANGED out
           ELSE /\ Say(p, [line |-> "Bucket creation cancelled."])
                /\ Goto(p, "done")
    /\ UNCHANGED <<provider, runs, argv, calls, running_instances>>

\* lines 113-119 up to the test of line 116: the bucket is created; a name
\* that is taken makes the provider refuse
S3CreateBucket(p) ==
    /\ \/ pc[p] = "s3.create" /\ ~public_requested(args(p))
       \/ pc[p] = "create_bucket"
    /\ \E ok \in IF args(p).bucket_name \in buckets THEN {FALSE} ELSE BOOLEAN :
        /\ Issue(p, [op |-> "create_bucket", Bucket |-> args(p).bucket_name,
                     LocationConstraint |-> "us-west-2", ok |-> ok])
        /\ IF ok
           THEN /\ buckets' = buckets \cup {args(p).bucket_name}
                /\ IF public_requested(args(p))
                   THEN /\ Goto(p, "put_bucket_acl")
                        /\ UNCHANGED out
                   ELSE /\ Say(p, [line |-> "Created bucket",
                                   bucket_name |-> args(p).bucket_name])
                        /\ Goto(p, "done")
           ELSE /\ Raise(p)
                /\ UNCHANGED <<buckets, out>>
    /\ UNCHANGED <<instances, tagged_buckets, public_buckets, objects, zones,
                   runs, argv, stdin, running_instances>>

\* lines 116-119: public-read access is set on the created bucket
S3PutBucketAcl(p) ==
    /\ pc[p] = "put_bucket_acl"
    /\ \E ok \in BOOLEAN :
        /\ Issue(p, [op |-> "put_bucket_acl", Bucket |-> args(p).bucket_name,
                     ACL |-> "public-read", ok |-> ok])
        /\ IF ok
           THEN /\ public_buckets' = public_buckets \cup {args(p).bucket_name}
                /\ Say(p, [line |-> "Created bucket", bucket_name |-> args(p).bucket_name])
                /\ Goto(p, "done")
           ELSE /\ Raise(p)
                /\ UNCHANGED <<public_buckets, out>>
    /\ UNCHANGED <<instances, buckets, tagged_buckets, objects, zones,
                   runs, argv, stdin, running_instances>>

\* an existence check that only looks whether the account has buckets
bucket_found_any(name, response) == Len(response) > 0

\* an existence check with the test inverted
bucket_found_inverted(name, response) == ~\E k \in 1..Len(response) : response[k] = name

\* line 123: the target is among the names of the response
bucket_found(name, response) == \E k \in 1..Len(response) : response[k] = name

\* lines 122-125: the account-wide read and the existence check
S3ExistenceCheck(p) ==
    /\ pc[p] = "s3.upload"
    /\ \E ok \in BOOLEAN :
        LET response == IF ok THEN list_buckets(buckets) ELSE <<>>
        IN  /\ Issue(p, [op |-> "list_buckets", ok |-> ok, response |-> response])
            /\ IF ~ok
               THEN /\ Raise(p)
                    /\ UNCHANGED out
               ELSE IF bucket_found(args(p).bucket_name, response)
               THEN /\ Goto(p, "upload_fileobj")
                    /\ UNCHANGED out
               ELSE /\ Say(p, [line |-> "Bucket does not exist or was not created via this CLI.",
                               bucket_name |-> args(p).bucket_name])
                    /\ Goto(p, "done")
    /\ UNCHANGED <<provider, runs, argv, stdin, running_instances>>

\* lines 127-129: the file is opened and sent under its own path as key
S3Upload(p) ==
    /\ pc[p] = "upload_fileobj"
    /\ IF args(p).file \notin ReadableFiles
       THEN /\ Goto(p, "FileNotFoundError")
            /\ UNCHANGED <<objects, calls, out>>
       ELSE \E ok \in BOOLEAN :
            /\ Issue(p, [op |-> "upload_fileobj", Fileobj |-> args(p).file,
                         Bucket |-> args(p).bucket_name, Key |-> args(p).file,
                         ok |-> ok])
            /\ IF ok
               THEN /\ objects' = objects \cup {<<args(p).bucket_name, args(p).file>>}
                    /\ Say(p, [line |-> "Uploaded", file |-> args(p).file,
                               bucket_name |-> args(p).bucket_name])
                    /\ Goto(p, "done")
               ELSE /\ Raise(p)
                    /\ UNCHANGED <<objects, out>>
    /\ UNCHANGED <<instances, buckets, tagged_buckets, public_buckets, zones,
                   runs, argv, stdin, running_instances>>

\* a listing that leaves out the buckets without the ownership tag
S3ListOwned(p) ==
    /\ pc[p] = "s3.list"
    /\ \E ok \in BOOLEAN :
        LET response == IF ok THEN list_buckets(buckets) ELSE <<>>
            owned == SelectSeq(response, LAMBDA b : b \in tagged_buckets)
        IN  /\ Issue(p, [op |-> "list_buckets", ok |-> ok, response |-> response])
            /\ IF ok
               THEN /\ out' = [out EXCEPT ![p] = @ \o
                           [k \in 1..Len(owned) |->
                               [line |-> "Bucket Name", Name |-> owned[k]]]]
                    /\ Goto(p, "done")
               ELSE /\ Raise(p)
                    /\ UNCHANGED out
    /\ UNCHANGED <<provider, runs, argv, stdin, running_instances>>

\* lines 132-134: one line per bucket of the account
S3List(p) ==
    /\ pc[p] = "s3.list"
    /\ \E ok \in BOOLEAN :
        LET response == IF ok THEN list_buckets(buckets) ELSE <<>>
        IN  /\ Issue(p, [op |-> "list_buckets", ok |-> ok, response |-> response])
            /\ IF ok
               THEN /\ out' = [out EXCEPT ![p] = @ \o
                           [k \in 1..Len(response) |->
                               [line |-> "Bucket Name", Name |-> response[k]]]]
                    /\ Goto(p, "done")
               ELSE /\ Raise(p)
                    /\ UNCHANGED out
    /\ UNCHANGED <<provider, runs, argv, stdin, running_instances>>

(* ---------------------------------------------------------------------- *)
(* handle_route53_commands                                                  *)
(* ---------------------------------------------------------------------- *)

\* the string-hash keys a Python process can start with
HashSeeds == {0, 1}

NameCode(s) == IF s = "example.com" THEN 7 ELSE 9

\* line 138: str(hash(s)) in a process whose string hashing is keyed by seed
str_hash(seed, s) == seed * 100 + NameCode(s)

\* lines 138-139: the zone is created under a reference hashed from its name
Route53Create(p) ==
    /\ pc[p] = "route53.create"
    /\ \E seed \in HashSeeds, ok \in BOOLEAN :
        /\ Issue(p, [op |-> "create_hosted_zone", Name |-> args(p).zone_name,
                     CallerReference |-> str_hash(seed, args(p).zone_name),
                     ok |-> ok])
        /\ IF ok
           THEN /\ zones' = Append(zones,
                       [Name |-> args(p).zone_name,
                        CallerReference |-> str_hash(seed, args(p).zone_name)])
                /\ Say(p, [line |-> "Created DNS zone", zone_name |-> args(p).zone_name,
                           Id |-> Len(zones) + 1])
                /\ Goto(p, "done")
           ELSE /\ Raise(p)
                /\ UNCHANGED <<zones, out>>
    /\ UNCHANGED <<instances, buckets, tagged_buckets, public_buckets, objects,
                   runs, argv, stdin, running_instances>>

(* ---------------------------------------------------------------------- *)
(* Specification                                                            *)
(* ---------------------------------------------------------------------- *)

\* the operator invokes the tool one command after another
Next ==
    \/ main(Operator)
    \/ NoBranch(Operator)
    \/ EC2CapCheck(Operator)
    \/ EC2RunInstances(Operator)
    \/ EC2Manage(Operator)
    \/ EC2List(Operator)
    \/ S3Confirm(Operator)
    \/ S3CreateBucket(Operator)
    \/ S3PutBucketAcl(Operator)
    \/ S3ExistenceCheck(Operator)
    \/ S3Upload(Operator)
    \/ S3List(Operator)
    \/ Route53Create(Operator)
    \/ exit(Operator)
    \/ \E i \in 1..Len(instances) : BecomeRunning(i)

Spec == Init /\ [][Next]_vars

(* ---------------------------------------------------------------------- *)
(* Two invocations of 'ec2 create' at the same time                         *)
(* ---------------------------------------------------------------------- *)

CreateCmdLines == {c \in CmdLines : c.resource = "ec2" /\ c.sub = "create"}

race_main(p) == Start(p, CreateCmdLines)

RaceInit == Init /\ buckets = {}

RaceNext ==
    \/ \E p \in Invocations : race_main(p)
    \/ \E p \in Invocations : EC2CapCheck(p)
    \/ \E p \in Invocations : EC2RunInstances(p)
    \/ \E p \in Invocations : exit(p)
    \/ \E i \in 1..Len(instances) : BecomeRunning(i)

RaceSpec == RaceInit /\ [][RaceNext]_vars

(* ---------------------------------------------------------------------- *)
(* Properties                                                               *)
(* ---------------------------------------------------------------------- *)

\* invocation p runs the command 'res sub'
IsCmd(p, res, sub) == argv[p].resource = res /\ argv[p].sub = sub

\* the names of the remote calls of invocation p, in order
Ops(p) == [k \in 1..Len(calls[p]) |-> calls[p][k].op]

\* the remote calls that change the provider's state
MutatingOps == {"run_instances", "start_instances", "stop_instances", "create_bucket",
                "put_bucket_acl", "upload_fileobj", "create_hosted_zone"}

\* number of running instances in a describe response
RunningIn(response) == Cardinality({k \in 1..Len(response) : response[k].State = "running"})

\* the cap check of invocation p has read a response
CapCheckRead(p) == IsCmd(p, "ec2", "create") /\ Len(calls[p]) >= 1 /\ calls[p][1].ok

QuotaLine == [line |-> "Error: Cannot create more than 2 running instances."]

\* C1: an 'ec2 create' whose tag-filtered describe response holds 2 or more
\* running instances reports the quota condition and issues no other remote
\* call than that read, whatever the instance type and the AMI choice.
C1_CapRejects ==
    \A p \in Invocations :
        (CapCheckRead(p) /\ RunningIn(calls[p][1].response) >= 2) =>
            /\ pc[p] = "done"
            /\ out[p] = <<QuotaLine>>
            /\ Ops(p) = <<"describe_instances">>
            /\ \A k \in 1..Len(calls[p]) : calls[p][k].op \notin MutatingOps

\* a create is rejected on exactly two running tagged instances
C1_Witness ==
    \E p \in Invocations :
        /\ CapCheckRead(p)
        /\ RunningIn(calls[p][1].response) = 2
        /\ out[p] = <<QuotaLine>>

\* C2: an 'ec2 create' whose tag-filtered describe response holds fewer than
\* 2 running instances issues exactly one create call, for one instance with
\* the tag CreatedByCLI=true; when the call returns, the instance exists with
\* the tag and its identifier is reported.
C2_CreateTagged ==
    \A p \in Invocations :
        (CapCheckRead(p) /\ RunningIn(calls[p][1].response) < 2) =>
            \/ /\ pc[p] = "run_instances"
               /\ Len(calls[p]) = 1
               /\ out[p] = <<>>
            \/ /\ Ops(p) = <<"describe_instances", "run_instances">>
               /\ calls[p][2].MinCount = 1
               /\ calls[p][2].MaxCount = 1
               /\ calls[p][2].Tags = {[Key |-> "CreatedByCLI", Value |-> "true"]}
               /\ IF calls[p][2].ok
                  THEN /\ pc[p] = "done"
                       /\ Len(out[p]) = 1
                       /\ out[p][1].line = "Created instance"
                       /\ out[p][1].InstanceId \in 1..Len(instances)
                       /\ instances[out[p][1].InstanceId].tagged
                  ELSE /\ pc[p] = "ClientError"
                       /\ out[p] = <<>>

\* a create succeeds with one running tagged instance, next to a running
\* instance without the tag and a stopped one with it
C2_Witness ==
    \E p \in Invocations :
        /\ CapCheckRead(p)
        /\ RunningIn(calls[p][1].response) = 1
        /\ pc[p] = "done"
        /\ Len(calls[p]) = 2
        /\ \E i \in 1..Len(instances) : ~instances[i].tagged /\ instances[i].state = "running"

\* the answer is yes in any letter case
IsYes(inp) ==
    /\ Len(inp) = 3
    /\ inp[1] \in {"y", "Y"}
    /\ inp[2] \in {"e", "E"}
    /\ inp[3] \in {"s", "S"}

\* invocation p creates a public bucket and has read the answer to the prompt
PublicAnswered(p) == IsCmd(p, "s3", "create") /\ argv[p].public /\ Len(stdin[p]) >= 1

\* C3: a public bucket creation whose confirmation answer is not "yes" in
\* some letter case makes no remote call at all and reports the cancellation.
C3_DeclineAborts ==
    \A p \in Invocations :
        (PublicAnswered(p) /\ ~IsYes(stdin[p][1])) =>
            /\ calls[p] = <<>>
            /\ out[p] = <<[line |-> "Bucket creation cancelled."]>>
            /\ pc[p] = "done"

\* the answer "y" has cancelled a public bucket creation
C3_Witness ==
    \E p \in Invocations :
        /\ PublicAnswered(p)
        /\ stdin[p] = << <<"y">> >>
        /\ pc[p] = "done"
        /\ argv[p].bucket_name \notin buckets

\* the remote calls of invocation p all name bucket b
OnBucket(p, b) == \A k \in 1..Len(calls[p]) : calls[p][k].Bucket = b

\* C4: a public bucket creation confirmed with "yes" in any letter case
\* issues create-bucket and then set-public-access and nothing else, both on
\* the requested name; set-public-access is issued only once create-bucket
\* has returned, and with both calls returned the command has issued
\* exactly these two calls.
C4_CreateThenAcl ==
    \A p \in Invocations :
        (PublicAnswered(p) /\ IsYes(stdin[p][1])) =>
            /\ Ops(p) \in {<<>>, <<"create_bucket">>, <<"create_bucket", "put_bucket_acl">>}
            /\ OnBucket(p, argv[p].bucket_name)
            /\ Len(calls[p]) = 2 => calls[p][1].ok
            /\ Len(calls[p]) = 0 => pc[p] = "create_bucket"
            /\ pc[p] = "done" =>
                /\ Len(calls[p]) = 2
                /\ calls[p][2].ok
                /\ calls[p][2].ACL = "public-read"
                /\ out[p] = <<[line |-> "Created bucket", bucket_name |-> argv[p].bucket_name]>>

\* the answer "YES" has led to a public bucket
C4_Witness ==
    \E p \in Invocations :
        /\ PublicAnswered(p)
        /\ stdin[p] = << <<"Y", "E", "S">> >>
        /\ pc[p] = "done"
        /\ Ops(p) = <<"create_bucket", "put_bucket_acl">>
        /\ argv[p].bucket_name \in public_buckets

\* the existence check of invocation p has read a response
ExistenceRead(p) == IsCmd(p, "s3", "upload") /\ Len(calls[p]) >= 1 /\ calls[p][1].ok

\* name is one of the bucket names of a list response
Listed(name, response) == name \in {response[k] : k \in 1..Len(response)}

\* C5: an upload whose target is absent from the list-buckets response
\* reports the not-found/not-owned condition and issues no upload call.
C5_AbsentRejected ==
    \A p \in Invocations :
        (ExistenceRead(p) /\ ~Listed(argv[p].bucket_name, calls[p][1].response)) =>
            /\ pc[p] = "done"
            /\ Ops(p) = <<"list_buckets">>
            /\ out[p] = <<[line |-> "Bucket does not exist or was not created via this CLI.",
                           bucket_name |-> argv[p].bucket_name]>>

\* an upload is rejected in an account that holds another bucket
C5_Witness ==
    \E p \in Invocations :
        /\ ExistenceRead(p)
        /\ ~Listed(argv[p].bucket_name, calls[p][1].response)
        /\ calls[p][1].response # <<>>
        /\ pc[p] = "done"

\* C6: an upload of a readable file whose target is in the list-buckets
\* response issues exactly one upload call, to that bucket under the file's
\* path as key, and on its return reports the file and the bucket; nothing
\* but the presence of the name in the response is checked.
C6_PresentUploaded ==
    \A p \in Invocations :
        (/\ ExistenceRead(p)
         /\ Listed(argv[p].bucket_name, calls[p][1].response)
         /\ argv[p].file \in ReadableFiles) =>
            \/ /\ pc[p] = "upload_fileobj"
               /\ Len(calls[p]) = 1
               /\ out[p] = <<>>
            \/ /\ Ops(p) = <<"list_buckets", "upload_fileobj">>
               /\ calls[p][2].Bucket = argv[p].bucket_name
               /\ calls[p][2].Key = argv[p].file
               /\ calls[p][2].Fileobj = argv[p].file
               /\ IF calls[p][2].ok
                  THEN /\ pc[p] = "done"
                       /\ out[p] = <<[line |-> "Uploaded", file |-> argv[p].file,
                                      bucket_name |-> argv[p].bucket_name]>>
                       /\ <<argv[p].bucket_name, argv[p].file>> \in objects
                  ELSE /\ pc[p] = "ClientError"
                       /\ out[p] = <<>>

\* a file has been uploaded to a bucket that bears no ownership tag
C6_Witness ==
    \E p \in Invocations :
        /\ ExistenceRead(p)
        /\ pc[p] = "done"
        /\ Len(calls[p]) = 2
        /\ calls[p][2].ok
        /\ argv[p].bucket_name \notin tagged_buckets

\* C7: no upload call is made for a target bucket that lacks the ownership
\* tag.
C7_UntaggedRejected ==
    \A p \in Invocations :
        \A k \in 1..Len(calls[p]) :
            calls[p][k].op = "upload_fileobj" => calls[p][k].Bucket \in tagged_buckets

\* C8: 'ec2 manage --instance-id X --action start|stop' that returns has
\* issued exactly one start call (for start) or one stop call (for stop)
\* against X, with no read before it, and has reported the action and X.
C8_StartStopIssued ==
    \A p \in Invocations :
        (IsCmd(p, "ec2", "manage") /\ pc[p] = "done") =>
            /\ Len(calls[p]) = 1
            /\ calls[p][1].op = (IF argv[p].opt_action = "start"
                                 THEN "start_instances" ELSE "stop_instances")
            /\ calls[p][1].InstanceIds = <<argv[p].instance_id>>
            /\ out[p] = <<[line |-> IF argv[p].opt_action = "start"
                                    THEN "Started instance" ELSE "Stopped instance",
                           instance_id |-> argv[p].instance_id]>>

\* number of running instances that bear the ownership tag
RunningTagged == Cardinality({i \in 1..Len(instances) :
                                 instances[i].tagged /\ instances[i].state = "running"})

\* C9: nothing protects the cap check against a concurrent create: once an
\* invocation has passed the check, its create call goes through and adds an
\* instance however many tagged instances are running by then.
C9_NoRaceProtection ==
    \A p \in Invocations :
        pc[p] = "run_instances" =>
            ENABLED (EC2RunInstances(p) /\ Len(instances') = Len(instances) + 1)

\* two concurrent invocations have both read fewer than 2 running instances
\* before either created, both have created, and more than 2 tagged instances
\* are running
C9_Witness ==
    /\ \A p \in Invocations :
        /\ CapCheckRead(p)
        /\ RunningIn(calls[p][1].response) < 2
        /\ Len(calls[p][1].response) = 1
        /\ Ops(p) = <<"describe_instances", "run_instances">>
        /\ calls[p][2].ok
    /\ RunningTagged > 2

\* C10: a failed remote call ends the command: no call follows it (so it is
\* not retried either), the invocation ends with the exception, and no
\* outcome line is printed.
C10_FailureTerminates ==
    \A p \in Invocations :
        \A k \in 1..Len(calls[p]) :
            ~calls[p][k].ok =>
                /\ k = Len(calls[p])
                /\ pc[p] = "ClientError"
                /\ out[p] = <<>>

\* a failed create-bucket of a confirmed public bucket has ended the command
C10_Witness ==
    \E p \in Invocations :
        /\ PublicAnswered(p)
        /\ Ops(p) = <<"create_bucket">>
        /\ ~calls[p][1].ok
        /\ pc[p] = "ClientError"
        /\ argv[p].bucket_name \notin buckets

\* C11: the confirmation prompt and set-public-access belong to the public
\* bucket creation alone: a bucket creation without --public reads no answer
\* and issues one create-bucket call and nothing else, and no other command
\* ever reads an answer or sets public access.
C11_GateOnlyForPublic ==
    \A p \in Invocations :
        /\ stdin[p] # <<>> => (IsCmd(p, "s3", "create") /\ argv[p].public)
        /\ \A k \in 1..Len(calls[p]) :
            calls[p][k].op = "put_bucket_acl" => (IsCmd(p, "s3", "create") /\ argv[p].public)
        /\ (IsCmd(p, "s3", "create") /\ ~argv[p].public) =>
            /\ stdin[p] = <<>>
            /\ IF pc[p] = "s3.create"
               THEN calls[p] = <<>>
               ELSE /\ Ops(p) = <<"create_bucket">>
                    /\ calls[p][1].Bucket = argv[p].bucket_name
                    /\ pc[p] = (IF calls[p][1].ok THEN "done" ELSE "ClientError")

\* a bucket has been created without --public: no prompt, no public access
C11_Witness ==
    \E p \in Invocations :
        /\ IsCmd(p, "s3", "create")
        /\ ~argv[p].public
        /\ pc[p] = "done"
        /\ Ops(p) = <<"create_bucket">>
        /\ argv[p].bucket_name \in buckets \ public_buckets

\* C12: 'route53 manage' issues no remote call, prints nothing, raises no
\* error and returns, whatever the zone id and the record.
C12_ManageIsStub ==
    \A p \in Invocations :
        IsCmd(p, "route53", "manage") =>
            /\ calls[p] = <<>>
            /\ out[p] = <<>>
            /\ stdin[p] = <<>>
            /\ pc[p] \in {"route53.manage", "done"}
            /\ pc[p] = "route53.manage" => ENABLED (NoBranch(p) /\ pc'[p] = "done")

\* 'route53 manage' has returned
C12_Witness ==
    \E p \in Invocations :
        /\ IsCmd(p, "route53", "manage")
        /\ pc[p] = "done"
        /\ calls[p] = <<>>

\* C13: the caller reference of a zone creation is a function of the zone
\* name alone: two zones created under the same name, in whatever process
\* runs, were created under the same reference.
C13_ReferenceFromName ==
    \A i, j \in 1..Len(zones) :
        zones[i].Name = zones[j].Name => zones[i].CallerReference = zones[j].CallerReference

\* C14: an 'ec2 list' that returns has made one read of its own, filtered by
\* the ownership tag, and has printed exactly one line per instance of the
\* response, with its id and state, in response order; the instances of the
\* response are the account's tagged instances, each once.
C14_ListReportsResponse ==
    \A p \in Invocations :
        (IsCmd(p, "ec2", "list") /\ pc[p] = "done") =>
            /\ Ops(p) = <<"describe_instances">>
            /\ calls[p][1].ok
            /\ calls[p][1].Filters = {[Key |-> "CreatedByCLI", Value |-> "true"]}
            /\ LET response == calls[p][1].response
               IN  /\ Len(out[p]) = Len(response)
                   /\ \A k \in 1..Len(response) :
                        out[p][k] = [line |-> "Instance ID",
                                     InstanceId |-> response[k].InstanceId,
                                     State |-> response[k].State]
                   /\ \A k, l \in 1..Len(response) :
                        k < l => response[k].InstanceId < response[l].InstanceId
                   /\ {response[k].InstanceId : k \in 1..Len(response)}
                        = {i \in 1..Len(instances) : instances[i].tagged}

\* a list has reported two tagged instances of an account that also holds
\* an instance without the tag
C14_Witness ==
    \E p \in Invocations :
        /\ IsCmd(p, "ec2", "list")
        /\ pc[p] = "done"
        /\ Len(out[p]) = 2
        /\ \E i \in 1..Len(instances) : ~instances[i].tagged

\* C15: every create call carries the image id of the requested AMI choice,
\* "ami-12345678" for ubuntu and the different "ami-87654321" for
\* amazon-linux, the same on every call, and the requested instance type.
C15_ImageMapping ==
    \A p \in Invocations :
        \A k \in 1..Len(calls[p]) :
            calls[p][k].op = "run_instances" =>
                /\ argv[p].ami = "ubuntu" => calls[p][k].ImageId = "ami-12345678"
                /\ argv[p].ami = "amazon-linux" => calls[p][k].ImageId = "ami-87654321"
                /\ calls[p][k].ImageId \in {"ami-12345678", "ami-87654321"}
                /\ calls[p][k].InstanceType = argv[p].instance_type

\* an amazon-linux instance of type t4g.nano has been created
C15_Witness ==
    \E p \in Invocations :
        /\ IsCmd(p, "ec2", "create")
        /\ argv[p].ami = "amazon-linux"
        /\ argv[p].instance_type = "t4g.nano"
        /\ Len(calls[p]) = 2
        /\ calls[p][2].ok

\* C16: with the tool invoked one command after another and nobody else
\* creating, starting or tagging instances, at most 2 instances that bear
\* the ownership tag are running, a created instance being pending first and
\* running later.
C16_CapHolds == RunningTagged <= 2

\* C17: a create-instance call is the second call of its invocation, after a
\* tag-filtered describe-instances call that returned fewer than 2 running
\* instances, and an upload call the second after a list-buckets call that
\* returned the target; the decision rests on that read, and a process that
\* has not started holds no read result.
C17_ReadThenAct ==
    \A p \in Invocations :
        /\ \A k \in 1..Len(calls[p]) :
            /\ calls[p][k].op = "run_instances" =>
                /\ k = 2
                /\ calls[p][1].op = "describe_instances"
                /\ calls[p][1].Filters = {[Key |-> "CreatedByCLI", Value |-> "true"]}
                /\ calls[p][1].ok
                /\ RunningIn(calls[p][1].response) < 2
                /\ Len(running_instances[p]) = RunningIn(calls[p][1].response)
            /\ calls[p][k].op = "upload_fileobj" =>
                /\ k = 2
                /\ calls[p][1].op = "list_buckets"
                /\ calls[p][1].ok
                /\ Listed(calls[p][k].Bucket, calls[p][1].response)
        /\ pc[p] \in {"idle", "ec2.create", "s3.upload"} =>
            /\ calls[p] = <<>>
            /\ running_instances[p] = <<>>

\* the second invocation of the tool has made its own read and then
\* uploaded
C17_Witness ==
    \E p \in Invocations :
        /\ runs = 2
        /\ Ops(p) = <<"list_buckets", "upload_fileobj">>
        /\ calls[p][2].ok

\* the listing commands
IsList(p) == IsCmd(p, "ec2", "list") \/ IsCmd(p, "s3", "list")

\* C18: 'ec2 list' and 's3 list' each issue one read call and no other call,
\* their step leaves the provider's state as it is, and 's3 list' prints the
\* name of every bucket of the response, which holds every bucket of the
\* account, tagged or not.
C18_ListsOnlyRead ==
    /\ [](\A p \in Invocations :
            IsList(p) =>
                /\ Len(calls[p]) <= 1
                /\ \A k \in 1..Len(calls[p]) : calls[p][k].op \notin MutatingOps
                /\ pc[p] \in {"done", "ClientError"} => Len(calls[p]) = 1
                /\ (IsCmd(p, "s3", "list") /\ pc[p] = "done") =>
                    /\ Ops(p) = <<"list_buckets">>
                    /\ out[p] = [k \in 1..Len(calls[p][1].response) |->
                                    [line |-> "Bucket Name", Name |-> calls[p][1].response[k]]]
                    /\ {out[p][k].Name : k \in 1..Len(out[p])} = buckets
                    /\ Len(out[p]) = Cardinality(buckets))
    /\ [][\A p \in Invocations :
            (pc[p] \in {"ec2.list", "s3.list"} /\ pc'[p] # pc[p]) => UNCHANGED provider]_vars

\* 's3 list' has printed two buckets of which none bears the ownership tag
C18_Witness ==
    \E p \in Invocations :
        /\ IsCmd(p, "s3", "list")
        /\ pc[p] = "done"
        /\ Len(out[p]) = 2
        /\ tagged_buckets = {}

====
